---- MODULE Spec2Model ----
(***************************************************************************)
(* Pyth price validation and safe decimal arithmetic (anchor-oracle.rs,    *)
(* price-validation.rs, anchor-integration.rs).                            *)
(*                                                                         *)
(* The functions are pure.  The state is the last call made: the function  *)
(* called, its arguments and the outcome, plus the build setting that      *)
(* decides what an arithmetic overflow does (panic or wrap around).        *)
(*                                                                         *)
(* The program computes on i32, i64, u64, i128 and u128.  The model        *)
(* checker's own integers are narrower, so an integer of the program is    *)
(* a sign and a magnitude, the magnitude a little-endian sequence of       *)
(* base-2^15 limbs without leading zeros (<<>> is 0).  The fixed widths are *)
(* kept by WrapU / WrapS; a cast is a wrap, an arithmetic step is the      *)
(* exact result wrapped plus a flag saying that it overflowed.             *)
(***************************************************************************)
EXTENDS Integers, Sequences, FiniteSets, TLC

VARIABLES
    overflow_checks,  \* build profile: TRUE = overflow panics, FALSE = wraps
    op,               \* name of the function called last ("none" at start)
    args,             \* its arguments, a record
    out               \* its outcome: Ok(value), Err(code) or Panic

vars == <<overflow_checks, op, args, out>>

-----------------------------------------------------------------------------
(* Natural numbers as limb sequences.  The operators are written without   *)
(* deep recursion: carries and borrows are found by look-ahead, and each   *)
(* operator looks at its operands before it descends.                      *)

Base == 32768

Limb(s, i) == IF i <= Len(s) THEN s[i] ELSE 0

MaxI(a, b) == IF a >= b THEN a ELSE b

MinI(a, b) == IF a <= b THEN a ELSE b

\* the limbs f[1..n] without the leading zeros
Norm(f, n) ==
    LET nz == {i \in 1..n : f[i] # 0}
        m  == IF nz = {} THEN 0 ELSE CHOOSE i \in nz : \A j \in nz : j <= i
    IN  SubSeq(f, 1, m)

NFromInt(n) ==
    Norm([i \in 1..3 |-> IF i = 1 THEN n % Base
                         ELSE IF i = 2 THEN (n \div Base) % Base
                         ELSE n \div (Base * Base)], 3)

\* for magnitudes below 2^30
NToInt(s) == Limb(s, 1) + Base * Limb(s, 2)

NAdd(a, b) ==
    IF a = <<>> THEN b ELSE IF b = <<>> THEN a ELSE
    LET n        == MaxI(Len(a), Len(b)) + 1
        g(i)     == Limb(a, i) + Limb(b, i)
        carry(i) == \E j \in 1..(i - 1) :
                        /\ g(j) >= Base
                        /\ \A k \in (j + 1)..(i - 1) : g(k) = Base - 1
    IN  Norm([i \in 1..n |-> (g(i) + (IF carry(i) THEN 1 ELSE 0)) % Base], n)

\* a - b for a >= b
NSub(a, b) ==
    IF b = <<>> THEN a ELSE
    LET n         == Len(a)
        borrow(i) == \E j \in 1..(i - 1) :
                         /\ Limb(a, j) < Limb(b, j)
                         /\ \A k \in (j + 1)..(i - 1) : Limb(a, k) = Limb(b, k)
    IN  Norm([i \in 1..n |->
                 (a[i] - Limb(b, i) - (IF borrow(i) THEN 1 ELSE 0) + Base) % Base], n)

\* -1, 0, 1 as a < b, a = b, a > b
NCmp(a, b) ==
    IF Len(a) < Len(b) THEN -1 ELSE IF Len(a) > Len(b) THEN 1 ELSE
    LET n == Len(a)
        first(x, y) == \E i \in 1..n :
                           /\ x[i] < y[i]
                           /\ \A k \in (i + 1)..n : x[k] = y[k]
    IN  IF first(a, b) THEN -1 ELSE IF first(b, a) THEN 1 ELSE 0

NShift(a, k) == IF a = <<>> THEN a ELSE [i \in 1..k |-> 0] \o a

\* a * d for one limb d: the low and the high halves of the limb products
NMulSmall(a, d) ==
    IF a = <<>> \/ d = 0 THEN <<>> ELSE
    LET n == Len(a)
    IN  NAdd(Norm([i \in 1..n |-> (a[i] * d) % Base], n),
             NShift(Norm([i \in 1..n |-> (a[i] * d) \div Base], n), 1))

RECURSIVE MulRows(_, _, _, _)
MulRows(a, b, lo, hi) ==
    IF lo > hi THEN <<>>
    ELSE IF lo = hi THEN NShift(NMulSmall(a, b[lo]), lo - 1)
    ELSE LET mid == (lo + hi) \div 2
         IN  NAdd(MulRows(a, b, lo, mid), MulRows(a, b, mid + 1, hi))

NMul(a, b) == IF a = <<>> \/ b = <<>> THEN <<>> ELSE MulRows(a, b, 1, Len(b))

\* one step of long division: the next quotient limb, estimated from the
\* leading limbs (b normalised: its top limb is at least Base / 2)
QDigit(r, b) ==
    LET n    == Len(b)
        top  == Limb(r, n + 1) * Base + Limb(r, n)
        qhat == MinI(top \div b[n], Base - 1)
        fits(d) == d >= 0 /\ NCmp(NMulSmall(b, d), r) <= 0
    IN  IF fits(qhat) THEN qhat
        ELSE IF fits(qhat - 1) THEN qhat - 1
        ELSE qhat - 2

\* long division, the quotient limbs most significant first
RECURSIVE DivStep(_, _, _, _)
DivStep(a, b, i, r) ==
    IF i = 0 THEN <<>>
    ELSE LET r1 == IF r = <<>> /\ a[i] = 0 THEN <<>> ELSE <<a[i]>> \o r
             d  == QDigit(r1, b)
         IN  <<d>> \o DivStep(a, b, i - 1, NSub(r1, NMulSmall(b, d)))

\* quotient of a by b, b # 0: both are scaled by f to normalise b
NDiv(a, b) ==
    LET f  == Base \div (b[Len(b)] + 1)
        an == NMulSmall(a, f)
        bn == NMulSmall(b, f)
        qs == DivStep(an, bn, Len(an), <<>>)
        n  == Len(qs)
    IN  Norm([i \in 1..n |-> qs[n + 1 - i]], n)

\* 2^k
NPow2(k) == [i \in 1..(k \div 15) |-> 0] \o <<2 ^ (k % 15)>>

\* a mod 2^bits
NLow(a, bits) ==
    LET full == bits \div 15
        part == 2 ^ (bits % 15)
    IN  Norm([i \in 1..(full + 1) |->
                 IF i <= full THEN Limb(a, i) ELSE Limb(a, i) % part], full + 1)

RECURSIVE NPow10(_)
NPow10(k) ==
    IF k = 0 THEN <<1>>
    ELSE IF k = 1 THEN <<10>>
    ELSE NMul(NPow10(k \div 2), NPow10(k - k \div 2))

-----------------------------------------------------------------------------
(* Integers: sign and magnitude; zero is never negative *)

ZMake(neg, mag) == [neg |-> neg /\ mag # <<>>, mag |-> mag]

Z(n) == IF n < 0 THEN ZMake(TRUE, NFromInt(-n)) ELSE ZMake(FALSE, NFromInt(n))

ZNeg(x) == ZMake(~x.neg, x.mag)

ZAbs(x) == ZMake(FALSE, x.mag)

ZAdd(x, y) ==
    IF x.neg = y.neg THEN ZMake(x.neg, NAdd(x.mag, y.mag))
    ELSE IF NCmp(x.mag, y.mag) >= 0 THEN ZMake(x.neg, NSub(x.mag, y.mag))
    ELSE ZMake(y.neg, NSub(y.mag, x.mag))

ZSub(x, y) == ZAdd(x, ZNeg(y))

ZMul(x, y) == ZMake(x.neg # y.neg, NMul(x.mag, y.mag))

\* quotient truncated toward zero, y # 0
ZDiv(x, y) == ZMake(x.neg # y.neg, NDiv(x.mag, y.mag))

ZCmp(x, y) ==
    IF x.neg /\ ~y.neg THEN -1
    ELSE IF ~x.neg /\ y.neg THEN 1
    ELSE IF x.neg THEN NCmp(y.mag, x.mag)
    ELSE NCmp(x.mag, y.mag)

ZLt(x, y) == ZCmp(x, y) < 0

ZLe(x, y) == ZCmp(x, y) <= 0

ZIsZero(x) == x.mag = <<>>

ZPow2(k) == ZMake(FALSE, NPow2(k))

ZPow10(k) == ZMake(FALSE, NPow10(k))

\* small integers (below 2^30 in magnitude) back to the checker's own
ZToInt(x) == IF x.neg THEN -NToInt(x.mag) ELSE NToInt(x.mag)

-----------------------------------------------------------------------------
(* Fixed-width types *)

UMax(bits) == ZSub(ZPow2(bits), Z(1))

SMax(bits) == ZSub(ZPow2(bits - 1), Z(1))

SMin(bits) == ZNeg(ZPow2(bits - 1))

InU(x, bits) == ~x.neg /\ ZLt(x, ZPow2(bits))

InS(x, bits) == ZLe(SMin(bits), x) /\ ZLe(x, SMax(bits))

\* x modulo 2^bits, in 0 .. 2^bits - 1
WrapU(x, bits) ==
    LET low == NLow(x.mag, bits)
    IN  IF ~x.neg \/ low = <<>> THEN ZMake(FALSE, low)
        ELSE ZMake(FALSE, NSub(NPow2(bits), low))

\* x modulo 2^bits, in -2^(bits-1) .. 2^(bits-1) - 1 (two's complement)
WrapS(x, bits) ==
    LET u == WrapU(x, bits)
    IN  IF ZLt(u, ZPow2(bits - 1)) THEN u ELSE ZSub(u, ZPow2(bits))


SatS(x, bits) ==
    IF ZLt(x, SMin(bits)) THEN SMin(bits)
    ELSE IF ZLt(SMax(bits), x) THEN SMax(bits)
    ELSE x

-----------------------------------------------------------------------------
(* Arithmetic steps.  A step yields the value the wrapping build computes  *)
(* (v), whether some step so far overflowed (ovf: a panic in the build     *)
(* with overflow checks) and whether some step faults in every build       *)
(* (trap: a division by zero).                                             *)

Lit(x) == [v |-> x, ovf |-> FALSE, trap |-> FALSE]

StepS(x, y, exact, bits) ==
    [v    |-> WrapS(exact, bits),
     ovf  |-> x.ovf \/ y.ovf \/ ~InS(exact, bits),
     trap |-> x.trap \/ y.trap]

StepU(x, y, exact, bits) ==
    [v    |-> WrapU(exact, bits),
     ovf  |-> x.ovf \/ y.ovf \/ ~InU(exact, bits),
     trap |-> x.trap \/ y.trap]

AddS(x, y, bits) == StepS(x, y, ZAdd(x.v, y.v), bits)

SubS(x, y, bits) == StepS(x, y, ZSub(x.v, y.v), bits)

MulS(x, y, bits) == StepS(x, y, ZMul(x.v, y.v), bits)

MulU(x, y, bits) == StepU(x, y, ZMul(x.v, y.v), bits)

NegS(x, bits) == StepS(x, x, ZNeg(x.v), bits)

\* unsigned division: a zero divisor faults
DivU(x, y) ==
    IF ZIsZero(y.v) THEN [v |-> Z(0), ovf |-> x.ovf \/ y.ovf, trap |-> TRUE]
    ELSE [v |-> ZDiv(x.v, y.v), ovf |-> x.ovf \/ y.ovf, trap |-> x.trap \/ y.trap]

\* signed division: a zero divisor faults, and so does MIN / -1
DivS(x, y, bits) ==
    IF ZIsZero(y.v) \/ (x.v = SMin(bits) /\ y.v = Z(-1))
    THEN [v |-> Z(0), ovf |-> x.ovf \/ y.ovf, trap |-> TRUE]
    ELSE [v |-> ZDiv(x.v, y.v), ovf |-> x.ovf \/ y.ovf, trap |-> x.trap \/ y.trap]

\* `as` casts: they wrap and never fault
CastU(x, bits) == [x EXCEPT !.v = WrapU(x.v, bits)]

CastS(x, bits) == [x EXCEPT !.v = WrapS(x.v, bits)]

\* 10^n exactly for n < bits; from n = bits on 10^n is a multiple of 2^bits,
\* which 2^bits stands for (out of range, and 0 when wrapped)
Pow10Exact(n, bits) ==
    IF ZLt(n, Z(bits)) THEN ZPow10(ZToInt(n)) ELSE ZPow2(bits)

\* 10u128.pow(n), n a u32
Pow10U(n, bits) == StepU(n, n, Pow10Exact(n.v, bits), bits)

\* 10i128.pow(n), n a u32
Pow10S(n, bits) == StepS(n, n, Pow10Exact(n.v, bits), bits)

-----------------------------------------------------------------------------
(* Outcomes of a call *)

Ok(x) == [tag |-> "Ok", val |-> x]

Err(e) == [tag |-> "Err", err |-> e]

None == [tag |-> "None"]

Some(x) == [tag |-> "Some", val |-> x]

Panic == [tag |-> "Panic"]

\* the value of a computation, or the panic it ends in
Finish(x, checks, val) ==
    IF x.trap \/ (x.ovf /\ checks) THEN Panic ELSE Ok(val)

\* pyth_solana_receiver_sdk::price_update::Price
Price(price, conf, exponent, publish_time) ==
    [price |-> price, conf |-> conf, exponent |-> exponent,
     publish_time |-> publish_time]

-----------------------------------------------------------------------------
(* Bounds engine *)

\* anchor-oracle.rs, ValidatedPrice::from_price
ValidatedPrice_from_price(price) ==
    LET conf_i64 == WrapS(price.conf, 64)
    IN  [price        |-> price.price,
         conf         |-> price.conf,
         exponent     |-> price.exponent,
         publish_time |-> price.publish_time,
         lower_bound  |-> SatS(ZSub(price.price, conf_i64), 64),
         upper_bound  |-> SatS(ZAdd(price.price, conf_i64), 64)]

\* price-validation.rs, safe_math::SafePrice::from_pyth_price
SafePrice_from_pyth_price(price) ==
    LET conf == WrapS(price.conf, 64)
    IN  [lower    |-> SatS(ZSub(price.price, conf), 64),
         mid      |-> price.price,
         upper    |-> SatS(ZAdd(price.price, conf), 64),
         exponent |-> price.exponent]

\* anchor-oracle.rs, ValidatedPrice::price_with_sigma
ValidatedPrice_price_with_sigma(self, sigma, checks) ==
    LET half_width == MulS(Lit(WrapS(self.conf, 64)), Lit(sigma), 64)
    IN  Finish(half_width, checks,
               <<SatS(ZSub(self.price, half_width.v), 64),
                 SatS(ZAdd(self.price, half_width.v), 64)>>)

\* price-validation.rs, safe_math::SafePrice::price_with_sigma
SafePrice_price_with_sigma(self, sigma, checks) ==
    LET half_width == MulS(SubS(Lit(self.upper), Lit(self.mid), 64), Lit(sigma), 64)
    IN  Finish(half_width, checks,
               [lower    |-> SatS(ZSub(self.mid, half_width.v), 64),
                mid      |-> self.mid,
                upper    |-> SatS(ZAdd(self.mid, half_width.v), 64),
                exponent |-> self.exponent])

-----------------------------------------------------------------------------
(* Decimal rebasing *)

\* calculate_usd_value dividing the price before it multiplies
calculate_usd_value_divides_first(token_amount, token_decimals, price, price_exponent, checks) ==
    IF ~ZLt(Z(0), price) THEN Err("NegativePrice")
    ELSE
    LET amount    == Lit(token_amount)
        price_val == Lit(WrapU(price, 128))
        exp_adjustment ==
            SubS(SubS(Lit(Z(6)), Lit(token_decimals), 32), Lit(price_exponent), 32)
        value ==
            IF ~exp_adjustment.v.neg
            THEN MulU(MulU(amount, price_val, 128),
                      Pow10U(CastU(exp_adjustment, 32), 128), 128)
            ELSE MulU(DivU(amount,
                           Pow10U(CastU(NegS(exp_adjustment, 32), 32), 128)),
                      price_val, 128)
    IN  Finish(value, checks, WrapU(value.v, 64))

\* anchor-oracle.rs, calculate_usd_value
oracle_calculate_usd_value(token_amount, token_decimals, price, price_exponent, checks) ==
    IF ~ZLt(Z(0), price) THEN Err("NegativePrice")
    ELSE
    LET amount    == Lit(token_amount)
        price_val == Lit(WrapU(price, 128))
        exp_adjustment ==
            SubS(SubS(Lit(Z(6)), Lit(token_decimals), 32), Lit(price_exponent), 32)
        value ==
            IF ~exp_adjustment.v.neg
            THEN MulU(MulU(amount, price_val, 128),
                      Pow10U(CastU(exp_adjustment, 32), 128), 128)
            ELSE DivU(MulU(amount, price_val, 128),
                      Pow10U(CastU(NegS(exp_adjustment, 32), 32), 128))
    IN  Finish(value, checks, WrapU(value.v, 64))

\* calculate_tokens_for_usd turning away negative prices only
calculate_tokens_for_usd_accepts_zero(usd_amount, usd_decimals, token_decimals, price, price_exponent, checks) ==
    IF price.neg THEN Err("NegativePrice")
    ELSE
    LET usd       == Lit(usd_amount)
        price_val == Lit(WrapU(price, 128))
        exp_adjustment ==
            SubS(SubS(Lit(usd_decimals), Lit(price_exponent), 32), Lit(token_decimals), 32)
        tokens ==
            IF ~exp_adjustment.v.neg
            THEN DivU(MulU(usd, Pow10U(CastU(exp_adjustment, 32), 128), 128), price_val)
            ELSE DivU(usd, MulU(price_val,
                                Pow10U(CastU(NegS(exp_adjustment, 32), 32), 128), 128))
    IN  Finish(tokens, checks, WrapU(tokens.v, 64))

\* anchor-oracle.rs, calculate_tokens_for_usd
oracle_calculate_tokens_for_usd(usd_amount, usd_decimals, token_decimals, price, price_exponent, checks) ==
    IF ~ZLt(Z(0), price) THEN Err("NegativePrice")
    ELSE
    LET usd       == Lit(usd_amount)
        price_val == Lit(WrapU(price, 128))
        exp_adjustment ==
            SubS(SubS(Lit(usd_decimals), Lit(price_exponent), 32), Lit(token_decimals), 32)
        tokens ==
            IF ~exp_adjustment.v.neg
            THEN DivU(MulU(usd, Pow10U(CastU(exp_adjustment, 32), 128), 128), price_val)
            ELSE DivU(usd, MulU(price_val,
                                Pow10U(CastU(NegS(exp_adjustment, 32), 32), 128), 128))
    IN  Finish(tokens, checks, WrapU(tokens.v, 64))

\* price-validation.rs, safe_math::calculate_value_usd
safe_math_calculate_value_usd(token_amount, token_decimals, price, usd_decimals, checks) ==
    IF ~ZLt(Z(0), WrapS(price.price, 128)) THEN Err("NegativePrice")
    ELSE
    LET amount    == Lit(token_amount)
        price_val == Lit(WrapU(WrapS(price.price, 128), 128))
        exp_adjustment ==
            SubS(AddS(Lit(token_decimals), Lit(price.exponent), 32), Lit(usd_decimals), 32)
        value ==
            IF ~exp_adjustment.v.neg
            THEN DivU(MulU(amount, price_val, 128),
                      Pow10U(CastU(exp_adjustment, 32), 128))
            ELSE MulU(MulU(amount, price_val, 128),
                      Pow10U(CastU(NegS(exp_adjustment, 32), 32), 128), 128)
    IN  Finish(value, checks, WrapU(value.v, 64))

\* price-validation.rs, safe_math::calculate_tokens_for_usd
safe_math_calculate_tokens_for_usd(usd_amount, usd_decimals, token_decimals, price, checks) ==
    IF ~ZLt(Z(0), WrapS(price.price, 128)) THEN Err("NegativePrice")
    ELSE
    LET usd       == Lit(usd_amount)
        price_val == Lit(WrapU(WrapS(price.price, 128), 128))
        exp_adjustment ==
            SubS(SubS(Lit(usd_decimals), Lit(price.exponent), 32), Lit(token_decimals), 32)
        tokens ==
            IF ~exp_adjustment.v.neg
            THEN DivU(MulU(usd, Pow10U(CastU(exp_adjustment, 32), 128), 128), price_val)
            ELSE DivU(usd, MulU(price_val,
                                Pow10U(CastU(NegS(exp_adjustment, 32), 32), 128), 128))
    IN  Finish(tokens, checks, WrapU(tokens.v, 64))

\* anchor-integration.rs, calculate_usd_value
integration_calculate_usd_value(token_amount, token_decimals, price, checks) ==
    LET price_value == Lit(WrapS(price.price, 128))
        token_value == Lit(WrapS(token_amount, 128))
        decimal_adjustment ==
            SubS(SubS(Lit(Z(6)), Lit(token_decimals), 32), Lit(price.exponent), 32)
        usd_value ==
            IF ~decimal_adjustment.v.neg
            THEN MulS(MulS(token_value, price_value, 128),
                      Pow10S(CastU(decimal_adjustment, 32), 128), 128)
            ELSE DivS(MulS(token_value, price_value, 128),
                      Pow10S(CastU(NegS(decimal_adjustment, 32), 32), 128), 128)
    IN  Finish(usd_value, checks, WrapU(usd_value.v, 64))

\* price-validation.rs, safe_math::SafePrice::to_u64
SafePrice_to_u64(self, target_decimals, checks) ==
    IF self.mid.neg THEN None
    ELSE
    LET decimal_adjustment == AddS(Lit(target_decimals), Lit(self.exponent), 32)
        mid == Lit(WrapU(self.mid, 128))
        scaled ==
            IF ~decimal_adjustment.v.neg
            THEN MulU(mid, Pow10U(CastU(decimal_adjustment, 32), 128), 128)
            ELSE DivU(mid, Pow10U(CastU(NegS(decimal_adjustment, 32), 32), 128))
    IN  Finish(scaled, checks, WrapU(scaled.v, 64))

-----------------------------------------------------------------------------
(* Validator *)

\* price-validation.rs, price_validation::ValidationConfig
ValidationConfig(max_age_secs, max_confidence_bps, min_price, max_price) ==
    [max_age_secs |-> max_age_secs, max_confidence_bps |-> max_confidence_bps,
     min_price |-> min_price, max_price |-> max_price]

\* validate_price asking for a price above min_price
validate_price_above_min(price, config, clock, checks) ==
    LET current_time == clock.unix_timestamp
        price_age    == SubS(Lit(current_time), Lit(price.publish_time), 64)
    IN  IF price_age.ovf /\ checks THEN Panic
        ELSE IF ~(/\ ~price_age.v.neg
                  /\ ZLe(WrapU(price_age.v, 64), config.max_age_secs))
        THEN Err("PriceTooStale")
        ELSE
        LET confidence_bps ==
                IF ~ZIsZero(price.price)
                THEN CastU(DivU(MulU(Lit(price.conf), Lit(Z(10000)), 128),
                                Lit(ZAbs(price.price))), 64).v
                ELSE UMax(64)
        IN  IF ~ZLe(confidence_bps, config.max_confidence_bps)
            THEN Err("ConfidenceTooHigh")
            ELSE IF config.min_price.tag = "Some"
                    /\ ~ZLt(config.min_price.val, price.price)
            THEN Err("PriceBelowMinimum")
            ELSE IF config.max_price.tag = "Some"
                    /\ ~ZLe(price.price, config.max_price.val)
            THEN Err("PriceAboveMaximum")
            ELSE Ok(<<>>)

\* validate_price checking the confidence before the age
validate_price_confidence_first(price, config, clock, checks) ==
    LET current_time == clock.unix_timestamp
        price_age    == SubS(Lit(current_time), Lit(price.publish_time), 64)
        confidence_bps ==
            IF ~ZIsZero(price.price)
            THEN CastU(DivU(MulU(Lit(price.conf), Lit(Z(10000)), 128),
                            Lit(ZAbs(price.price))), 64).v
            ELSE UMax(64)
    IN  IF ~ZLe(confidence_bps, config.max_confidence_bps)
        THEN Err("ConfidenceTooHigh")
        ELSE IF price_age.ovf /\ checks THEN Panic
        ELSE IF ~(/\ ~price_age.v.neg
                  /\ ZLe(WrapU(price_age.v, 64), config.max_age_secs))
        THEN Err("PriceTooStale")
        ELSE IF config.min_price.tag = "Some"
                /\ ~ZLe(config.min_price.val, price.price)
        THEN Err("PriceBelowMinimum")
        ELSE IF config.max_price.tag = "Some"
                /\ ~ZLe(price.price, config.max_price.val)
        THEN Err("PriceAboveMaximum")
        ELSE Ok(<<>>)

\* price-validation.rs, price_validation::validate_price
validate_price(price, config, clock, checks) ==
    LET current_time == clock.unix_timestamp
        price_age    == SubS(Lit(current_time), Lit(price.publish_time), 64)
    IN  IF price_age.ovf /\ checks THEN Panic
        ELSE IF ~(/\ ~price_age.v.neg
                  /\ ZLe(WrapU(price_age.v, 64), config.max_age_secs))
        THEN Err("PriceTooStale")
        ELSE
        LET confidence_bps ==
                IF ~ZIsZero(price.price)
                THEN CastU(DivU(MulU(Lit(price.conf), Lit(Z(10000)), 128),
                                Lit(ZAbs(price.price))), 64).v
                ELSE UMax(64)
        IN  IF ~ZLe(confidence_bps, config.max_confidence_bps)
            THEN Err("ConfidenceTooHigh")
            ELSE IF config.min_price.tag = "Some"
                    /\ ~ZLe(config.min_price.val, price.price)
            THEN Err("PriceBelowMinimum")
            ELSE IF config.max_price.tag = "Some"
                    /\ ~ZLe(price.price, config.max_price.val)
            THEN Err("PriceAboveMaximum")
            ELSE Ok(<<>>)

\* anchor-oracle.rs, validate_confidence
oracle_validate_confidence(price, max_bps) ==
    IF ZIsZero(price.price) THEN Err("ZeroPrice")
    ELSE
    LET conf_bps == DivU(MulU(Lit(price.conf), Lit(Z(10000)), 128),
                         Lit(ZAbs(price.price))).v
    IN  IF ~ZLe(conf_bps, max_bps) THEN Err("ConfidenceTooHigh")
        ELSE Ok(<<>>)

\* anchor-integration.rs, validate_confidence
integration_validate_confidence(price, checks) ==
    LET max_conf == DivU(MulU(Lit(ZAbs(price.price)), Lit(Z(2)), 64), Lit(Z(100)))
    IN  IF max_conf.ovf /\ checks THEN Panic
        ELSE IF ~ZLe(price.conf, max_conf.v) THEN Err("ConfidenceTooHigh")
        ELSE Ok(<<>>)

-----------------------------------------------------------------------------
(* Multi-feed operations *)

\* i64::abs: the absolute value of MIN overflows
AbsS(x, bits) == StepS(x, x, ZAbs(x.v), bits)

\* price-validation.rs, multi_price::validate_price_sync
validate_price_sync(price_a, price_b, max_time_diff_secs, checks) ==
    LET time_diff ==
            AbsS(SubS(Lit(price_a.publish_time), Lit(price_b.publish_time), 64), 64)
    IN  IF time_diff.ovf /\ checks THEN Panic
        ELSE IF ~ZLe(time_diff.v, max_time_diff_secs)
        THEN Err("PricesNotSynchronized")
        ELSE Ok(<<>>)

\* price-validation.rs, multi_price::calculate_price_ratio
calculate_price_ratio(numerator_price, denominator_price, result_decimals, checks) ==
    IF ~ZLt(Z(0), denominator_price.price) THEN Err("NegativePrice")
    ELSE
    LET num      == Lit(WrapS(numerator_price.price, 128))
        denom    == Lit(WrapS(denominator_price.price, 128))
        exp_diff == SubS(Lit(numerator_price.exponent),
                         Lit(denominator_price.exponent), 32)
        scaled   == MulS(num, Pow10S(Lit(result_decimals), 128), 128)
        ratio ==
            IF ~exp_diff.v.neg
            THEN DivS(MulS(scaled, Pow10S(CastU(exp_diff, 32), 128), 128),
                      denom, 128)
            ELSE DivS(scaled,
                      MulS(denom, Pow10S(CastU(NegS(exp_diff, 32), 32), 128), 128),
                      128)
    IN  IF ratio.trap \/ (ratio.ovf /\ checks) THEN Panic
        ELSE IF ZLt(ratio.v, Z(0)) THEN Err("NegativePrice")
        ELSE Ok(WrapU(ratio.v, 64))

\* calculate_twap dividing each term before it adds them
calculate_twap_divides_terms(spot_price, ema_price, spot_weight_bps, checks) ==
    LET spot_weight == Lit(spot_weight_bps)
        ema_weight  == StepU(spot_weight, spot_weight,
                             ZSub(Z(10000), spot_weight_bps), 16)
        weighted_price ==
            AddS(DivS(MulS(Lit(spot_price.price), spot_weight, 128),
                      Lit(Z(10000)), 128),
                 DivS(MulS(Lit(ema_price.price), ema_weight, 128),
                      Lit(Z(10000)), 128), 128)
    IN  Finish(weighted_price, checks, WrapS(weighted_price.v, 64))

\* calculate_twap giving the spot price the weight of the EMA price
calculate_twap_swaps_weights(spot_price, ema_price, spot_weight_bps, checks) ==
    LET spot_weight == Lit(spot_weight_bps)
        ema_weight  == StepU(spot_weight, spot_weight,
                             ZSub(Z(10000), spot_weight_bps), 16)
        weighted_price ==
            DivS(AddS(MulS(Lit(spot_price.price), ema_weight, 128),
                      MulS(Lit(ema_price.price), spot_weight, 128), 128),
                 Lit(Z(10000)), 128)
    IN  Finish(weighted_price, checks, WrapS(weighted_price.v, 64))

\* price-validation.rs, multi_price::calculate_twap
calculate_twap(spot_price, ema_price, spot_weight_bps, checks) ==
    LET spot_weight == Lit(spot_weight_bps)
        ema_weight  == StepU(spot_weight, spot_weight,
                             ZSub(Z(10000), spot_weight_bps), 16)
        weighted_price ==
            DivS(AddS(MulS(Lit(spot_price.price), spot_weight, 128),
                      MulS(Lit(ema_price.price), ema_weight, 128), 128),
                 Lit(Z(10000)), 128)
    IN  Finish(weighted_price, checks, WrapS(weighted_price.v, 64))

\* anchor-integration.rs, calculate_swap_output
calculate_swap_output(amount_in, price, exponent, checks) ==
    LET amount_out ==
            DivS(MulS(Lit(amount_in), Lit(price), 128),
                 Pow10S(CastU(NegS(Lit(exponent), 32), 32), 128), 128)
    IN  Finish(amount_out, checks, WrapU(amount_out.v, 64))

-----------------------------------------------------------------------------
(* Inputs: small values in full, and the values at which the widths bite   *)

MaxSmall == 2

MaxExp == 1

SmallNat == {Z(n) : n \in 0..MaxSmall}

\* i64 prices
Prices ==
    SmallNat \cup {ZNeg(x) : x \in SmallNat}
        \cup {SMin(64), SMax(64), Z(10000000), ZMul(Z(25), ZPow10(8))}

\* u64 confidences
Confs == SmallNat \cup {Z(50000), ZPow2(63), UMax(64)}

\* u64 amounts
Amounts == SmallNat \cup {Z(1000000), UMax(64)}

\* i64 prices handed to the rebasing functions
RebasePrices == SmallNat \cup {Z(-1), ZMul(Z(25), ZPow10(8)), SMax(64)}

\* i32 exponents
Exps ==
    {Z(n) : n \in (-MaxExp)..MaxExp}
        \cup {Z(-8), Z(-45), Z(45), Z(140), SMin(32), SMax(32)}

\* u8 decimals
Decs == {Z(0), Z(6), Z(9)}

\* u8 decimals of the result
OutDecs == {Z(0), Z(6)}

\* i64 prices handed to validate_price
ValPrices == SmallNat \cup {Z(-1), SMin(64), Z(10000000), SMax(64)}

\* i64 clock readings and publish times
Nows == {Z(0), Z(100)}

PublishTimes == {SMin(64), Z(39), Z(40), Z(101)}

\* u64 policy thresholds
MaxAges == {Z(60), ZPow2(63)}

Thresholds == {Z(40), Z(100), UMax(64)}

\* Option<i64> clamp bounds
MinPrices == {None, Some(Z(1)), Some(Z(3))}

MaxPrices == {None, Some(Z(1))}

\* u64 confidences and u8 multipliers handed to price_with_sigma
SigmaConfs == SmallNat \cup {ZPow2(62), ZPow2(63)}

Sigmas == {Z(0), Z(1), Z(2), Z(255)}

\* i64 publish times and tolerances handed to validate_price_sync
SyncTimes == SmallNat \cup {Z(-1), SMin(64), SMax(64)}

Tolerances == {Z(-1), Z(0), Z(1), SMax(64)}

\* i64 prices, i32 exponents and u8 decimals handed to calculate_price_ratio
RatioPrices == SmallNat \cup {Z(-1), SMax(64)}

RatioExps == {Z(-1), Z(0), Z(1), Z(-40), SMin(32)}

ResultDecs == {Z(0), Z(6), Z(40), Z(255)}

\* u16 weights handed to calculate_twap
Weights ==
    {Z(n) : n \in 0..MaxSmall} \cup {Z(10000 - n) : n \in 0..MaxSmall}
        \cup {Z(5000), Z(10001), Z(65535)}

\* samples handed to the confidence check of anchor-integration.rs
AgreePrices == Prices \cup {Z(249)}

AgreeConfs == Confs \cup {Z(5)}

Idle == [tag |-> "Idle"]

Init ==
    /\ overflow_checks \in BOOLEAN
    /\ op = "none"
    /\ args = <<>>
    /\ out = Idle

\* the caller takes the outcome; the next call starts afresh
Return ==
    /\ op # "none"
    /\ op' = "none"
    /\ args' = <<>>
    /\ out' = Idle
    /\ UNCHANGED overflow_checks

-----------------------------------------------------------------------------
(* Calls of the bounds engine *)

from_price ==
    /\ op = "none"
    /\ \E p \in Prices, c \in Confs :
        LET price == Price(p, c, Z(-8), Z(0))
        IN  /\ op' = "ValidatedPrice::from_price"
            /\ args' = [price |-> price]
            /\ out' = Ok(ValidatedPrice_from_price(price))
    /\ UNCHANGED overflow_checks

from_pyth_price ==
    /\ op = "none"
    /\ \E p \in Prices, c \in Confs :
        LET price == Price(p, c, Z(-8), Z(0))
        IN  /\ op' = "SafePrice::from_pyth_price"
            /\ args' = [price |-> price]
            /\ out' = Ok(SafePrice_from_pyth_price(price))
    /\ UNCHANGED overflow_checks

price_with_sigma ==
    /\ op = "none"
    /\ \E p \in Prices, c \in SigmaConfs, sigma \in Sigmas :
        LET self == ValidatedPrice_from_price(Price(p, c, Z(-8), Z(0)))
        IN  /\ op' = "ValidatedPrice::price_with_sigma"
            /\ args' = [self |-> self, sigma |-> sigma]
            /\ out' = ValidatedPrice_price_with_sigma(self, sigma, overflow_checks)
    /\ UNCHANGED overflow_checks

safe_price_with_sigma ==
    /\ op = "none"
    /\ \E p \in Prices, c \in SigmaConfs, sigma \in Sigmas :
        LET self == SafePrice_from_pyth_price(Price(p, c, Z(-8), Z(0)))
        IN  /\ op' = "SafePrice::price_with_sigma"
            /\ args' = [self |-> self, sigma |-> sigma]
            /\ out' = SafePrice_price_with_sigma(self, sigma, overflow_checks)
    /\ UNCHANGED overflow_checks

NextBounds ==
    from_price \/ from_pyth_price \/ price_with_sigma \/ safe_price_with_sigma \/ Return

SpecBounds == Init /\ [][NextBounds]_vars

-----------------------------------------------------------------------------
(* Calls of the decimal rebasing *)

calculate_usd_value ==
    /\ op = "none"
    /\ \E amount \in Amounts, decimals \in Decs, p \in RebasePrices, e \in Exps :
        /\ op' = "oracle::calculate_usd_value"
        /\ args' = [token_amount |-> amount, token_decimals |-> decimals,
                    price |-> p, price_exponent |-> e]
        /\ out' = oracle_calculate_usd_value(amount, decimals, p, e, overflow_checks)
    /\ UNCHANGED overflow_checks

calculate_tokens_for_usd ==
    /\ op = "none"
    /\ \E usd \in Amounts, usd_decimals \in OutDecs, decimals \in Decs,
          p \in RebasePrices, e \in Exps :
        /\ op' = "oracle::calculate_tokens_for_usd"
        /\ args' = [usd_amount |-> usd, usd_decimals |-> usd_decimals,
                    token_decimals |-> decimals, price |-> p, price_exponent |-> e]
        /\ out' = oracle_calculate_tokens_for_usd(usd, usd_decimals, decimals, p, e,
                                                  overflow_checks)
    /\ UNCHANGED overflow_checks

calculate_value_usd ==
    /\ op = "none"
    /\ \E amount \in Amounts, decimals \in Decs, p \in RebasePrices, e \in Exps,
          usd_decimals \in OutDecs :
        LET price == Price(p, Z(0), e, Z(0))
        IN  /\ op' = "safe_math::calculate_value_usd"
            /\ args' = [token_amount |-> amount, token_decimals |-> decimals,
                        price |-> price, usd_decimals |-> usd_decimals]
            /\ out' = safe_math_calculate_value_usd(amount, decimals, price,
                                                    usd_decimals, overflow_checks)
    /\ UNCHANGED overflow_checks

safe_math_tokens_for_usd ==
    /\ op = "none"
    /\ \E usd \in Amounts, usd_decimals \in OutDecs, decimals \in Decs,
          p \in RebasePrices, e \in Exps :
        LET price == Price(p, Z(0), e, Z(0))
        IN  /\ op' = "safe_math::calculate_tokens_for_usd"
            /\ args' = [usd_amount |-> usd, usd_decimals |-> usd_decimals,
                        token_decimals |-> decimals, price |-> price]
            /\ out' = safe_math_calculate_tokens_for_usd(usd, usd_decimals, decimals,
                                                         price, overflow_checks)
    /\ UNCHANGED overflow_checks

integration_usd_value ==
    /\ op = "none"
    /\ \E amount \in Amounts, decimals \in Decs, p \in RebasePrices, e \in Exps :
        LET price == Price(p, Z(0), e, Z(0))
        IN  /\ op' = "integration::calculate_usd_value"
            /\ args' = [token_amount |-> amount, token_decimals |-> decimals,
                        price |-> price]
            /\ out' = integration_calculate_usd_value(amount, decimals, price,
                                                      overflow_checks)
    /\ UNCHANGED overflow_checks

to_u64 ==
    /\ op = "none"
    /\ \E p \in RebasePrices, e \in Exps, target_decimals \in Decs :
        LET self == SafePrice_from_pyth_price(Price(p, Z(0), e, Z(0)))
        IN  /\ op' = "SafePrice::to_u64"
            /\ args' = [self |-> self, target_decimals |-> target_decimals]
            /\ out' = SafePrice_to_u64(self, target_decimals, overflow_checks)
    /\ UNCHANGED overflow_checks

NextRebase ==
    \/ calculate_usd_value
    \/ calculate_tokens_for_usd
    \/ calculate_value_usd
    \/ safe_math_tokens_for_usd
    \/ integration_usd_value
    \/ to_u64
    \/ Return

SpecRebase == Init /\ [][NextRebase]_vars

-----------------------------------------------------------------------------
(* Calls of the validator *)

call_validate_price ==
    /\ op = "none"
    /\ \E p \in ValPrices, c \in Confs, t \in PublishTimes, now \in Nows,
          max_age \in MaxAges, max_bps \in Thresholds,
          min \in MinPrices, max \in MaxPrices :
        LET price  == Price(p, c, Z(-8), t)
            config == ValidationConfig(max_age, max_bps, min, max)
            clock  == [unix_timestamp |-> now]
        IN  /\ op' = "price_validation::validate_price"
            /\ args' = [price |-> price, config |-> config, clock |-> clock]
            /\ out' = validate_price(price, config, clock, overflow_checks)
    /\ UNCHANGED overflow_checks

call_validate_confidence ==
    /\ op = "none"
    /\ \E p \in Prices, c \in Confs, max_bps \in Thresholds :
        LET price == Price(p, c, Z(-8), Z(0))
        IN  /\ op' = "oracle::validate_confidence"
            /\ args' = [price |-> price, max_bps |-> max_bps]
            /\ out' = oracle_validate_confidence(price, max_bps)
    /\ UNCHANGED overflow_checks

call_integration_validate_confidence ==
    /\ op = "none"
    /\ \E p \in AgreePrices, c \in AgreeConfs :
        LET price == Price(p, c, Z(-8), Z(0))
        IN  /\ op' = "integration::validate_confidence"
            /\ args' = [price |-> price]
            /\ out' = integration_validate_confidence(price, overflow_checks)
    /\ UNCHANGED overflow_checks

NextValidate ==
    \/ call_validate_price
    \/ call_validate_confidence
    \/ call_integration_validate_confidence
    \/ Return

SpecValidate == Init /\ [][NextValidate]_vars

-----------------------------------------------------------------------------
(* Calls of the multi-feed operations *)

call_validate_price_sync ==
    /\ op = "none"
    /\ \E ta \in SyncTimes, tb \in SyncTimes, max \in Tolerances :
        LET price_a == Price(Z(1), Z(0), Z(-8), ta)
            price_b == Price(Z(1), Z(0), Z(-8), tb)
        IN  /\ op' = "multi_price::validate_price_sync"
            /\ args' = [price_a |-> price_a, price_b |-> price_b,
                        max_time_diff_secs |-> max]
            /\ out' = validate_price_sync(price_a, price_b, max, overflow_checks)
    /\ UNCHANGED overflow_checks

call_calculate_price_ratio ==
    /\ op = "none"
    /\ \E pn \in RatioPrices, pd \in RatioPrices, en \in RatioExps,
          ed \in RatioExps, decimals \in ResultDecs :
        LET numerator_price   == Price(pn, Z(0), en, Z(0))
            denominator_price == Price(pd, Z(0), ed, Z(0))
        IN  /\ op' = "multi_price::calculate_price_ratio"
            /\ args' = [numerator_price |-> numerator_price,
                        denominator_price |-> denominator_price,
                        result_decimals |-> decimals]
            /\ out' = calculate_price_ratio(numerator_price, denominator_price,
                                            decimals, overflow_checks)
    /\ UNCHANGED overflow_checks

call_calculate_twap ==
    /\ op = "none"
    /\ \E ps \in Prices, pe \in Prices, w \in Weights :
        LET spot_price == Price(ps, Z(0), Z(-8), Z(0))
            ema_price  == Price(pe, Z(0), Z(-8), Z(0))
        IN  /\ op' = "multi_price::calculate_twap"
            /\ args' = [spot_price |-> spot_price, ema_price |-> ema_price,
                        spot_weight_bps |-> w]
            /\ out' = calculate_twap(spot_price, ema_price, w, overflow_checks)
    /\ UNCHANGED overflow_checks

call_calculate_swap_output ==
    /\ op = "none"
    /\ \E amount \in Amounts, p \in RebasePrices, e \in Exps :
        /\ op' = "integration::calculate_swap_output"
        /\ args' = [amount_in |-> amount, price |-> p, exponent |-> e]
        /\ out' = calculate_swap_output(amount, p, e, overflow_checks)
    /\ UNCHANGED overflow_checks

NextMulti ==
    \/ call_validate_price_sync
    \/ call_calculate_price_ratio
    \/ call_calculate_twap
    \/ call_calculate_swap_output
    \/ Return

SpecMulti == Init /\ [][NextMulti]_vars

-----------------------------------------------------------------------------
(* Bounds ordering *)

\* C1: for every sample the bounds derived by ValidatedPrice::from_price and
\* SafePrice::from_pyth_price satisfy lower_bound <= price <= upper_bound
BoundsOrdering ==
    /\ op = "ValidatedPrice::from_price" =>
          /\ ZLe(out.val.lower_bound, out.val.price)
          /\ ZLe(out.val.price, out.val.upper_bound)
    /\ op = "SafePrice::from_pyth_price" =>
          /\ ZLe(out.val.lower, out.val.mid)
          /\ ZLe(out.val.mid, out.val.upper)

-----------------------------------------------------------------------------
(* Sigma scaling *)

SigmaOps == {"ValidatedPrice::price_with_sigma", "SafePrice::price_with_sigma"}

\* the mid price and the half-width of the bounds the call in args scales
SigmaMid ==
    IF op = "ValidatedPrice::price_with_sigma" THEN args.self.price
    ELSE args.self.mid

SigmaHalfWidth ==
    IF op = "ValidatedPrice::price_with_sigma" THEN args.self.conf
    ELSE ZSub(args.self.upper, args.self.mid)

\* the bounds a call returned
LowerOf(o) ==
    IF op = "ValidatedPrice::price_with_sigma" THEN o.val[1] ELSE o.val.lower

UpperOf(o) ==
    IF op = "ValidatedPrice::price_with_sigma" THEN o.val[2] ELSE o.val.upper

\* the outcome of the call in args for another multiplier
WithSigma(n) ==
    IF op = "ValidatedPrice::price_with_sigma"
    THEN ValidatedPrice_price_with_sigma(args.self, n, overflow_checks)
    ELSE SafePrice_price_with_sigma(args.self, n, overflow_checks)

\* C11: price_with_sigma(n) returns the saturating pair
\* [mid - n x half-width, mid + n x half-width], and where the bounds for
\* n = 2 do not saturate their half-widths are exactly twice those for n = 1
SigmaLinearity ==
    op \in SigmaOps =>
        LET scaled == ZMul(args.sigma, SigmaHalfWidth)
            lower  == ZSub(SigmaMid, scaled)
            upper  == ZAdd(SigmaMid, scaled)
        IN  /\ out.tag = "Ok"
            /\ LowerOf(out) = SatS(lower, 64)
            /\ UpperOf(out) = SatS(upper, 64)
            /\ (args.sigma = Z(2) /\ InS(lower, 64) /\ InS(upper, 64)) =>
                  LET one == WithSigma(Z(1))
                  IN  /\ one.tag = "Ok"
                      /\ ZSub(UpperOf(out), SigmaMid)
                            = ZMul(Z(2), ZSub(UpperOf(one), SigmaMid))
                      /\ ZSub(SigmaMid, LowerOf(out))
                            = ZMul(Z(2), ZSub(SigmaMid, LowerOf(one)))

-----------------------------------------------------------------------------
(* Forward rebasing *)

ForwardOps ==
    {"oracle::calculate_usd_value", "safe_math::calculate_value_usd",
     "integration::calculate_usd_value"}

\* the price, the exponent and the output decimals of the call in args
ArgPrice == IF op \in {"oracle::calculate_usd_value", "oracle::calculate_tokens_for_usd"}
            THEN args.price ELSE args.price.price

ArgExp == IF op \in {"oracle::calculate_usd_value", "oracle::calculate_tokens_for_usd"}
          THEN args.price_exponent ELSE args.price.exponent

ArgOut == IF op \in {"oracle::calculate_usd_value", "integration::calculate_usd_value"}
          THEN Z(6) ELSE args.usd_decimals

\* x * 10^k for k >= 0, and x / 10^(-k) truncated for k < 0, exactly, for
\* 0 <= x < 2^128 (less than 10^39); a value of 40 digits or more is reported
\* as 2^128
Scale10(x, k) ==
    IF ZIsZero(x) THEN Z(0)
    ELSE IF k.neg
    THEN IF ZLt(Z(39), ZNeg(k)) THEN Z(0)
         ELSE ZDiv(x, ZPow10(ZToInt(ZNeg(k))))
    ELSE IF ZLt(Z(39), k) THEN ZPow2(128)
         ELSE ZMul(x, ZPow10(ZToInt(k)))

\* (amount / 10^a) x (price x 10^E) with o fractional digits, truncated
TrueValue(A, a, P, E, o) == Scale10(ZMul(A, P), ZAdd(ZSub(o, a), E))

\* C2: forward rebasing returns the true value (amount / 10^a) x (price x 10^E)
\* with o fractional digits whenever it fits the output; 1,000,000 tokens of 6
\* decimals at 2,500,000,000 x 10^-8 give 25,000,000
ForwardTrueValue ==
    (op \in ForwardOps /\ ZLt(Z(0), ArgPrice)) =>
        LET t == TrueValue(args.token_amount, args.token_decimals, ArgPrice,
                           ArgExp, ArgOut)
        IN  InU(t, 64) => (out.tag = "Ok" /\ out.val = t)

FormulaOps == {"oracle::calculate_usd_value", "safe_math::calculate_value_usd"}

\* adj = o - a - E of the call in args
ArgAdj == ZSub(ZSub(ArgOut, args.token_decimals), ArgExp)

\* 10^|k| fits the 128-bit intermediate
Pow10Fits(k) == InU(Pow10Exact(ZAbs(k), 128), 128)

\* r is x * 10^k (k >= 0), or x / 10^(-k) truncated toward zero (k < 0)
IsScaled(r, x, k) ==
    IF k.neg
    THEN LET d == ZPow10(ZToInt(ZNeg(k)))
         IN  ZLe(ZMul(r, d), x) /\ ZLt(x, ZMul(ZAdd(r, Z(1)), d))
    ELSE r = ZMul(x, ZPow10(ZToInt(k)))

\* the result x * 10^k, or x / 10^(-k) truncated, fits the 64-bit output
ScaledFits(x, k) ==
    IF k.neg
    THEN ZLt(x, ZMul(ZPow2(64), ZPow10(ZToInt(ZNeg(k)))))
    ELSE InU(ZMul(x, ZPow10(ZToInt(k))), 64)

-----------------------------------------------------------------------------
(* Overflow reporting *)

InverseOps == {"oracle::calculate_tokens_for_usd", "safe_math::calculate_tokens_for_usd"}

\* the exponent adjustment the call in args scales by
ArgScale ==
    IF op \in ForwardOps THEN ArgAdj
    ELSE IF op \in InverseOps
    THEN ZSub(ZSub(args.usd_decimals, ArgExp), args.token_decimals)
    ELSE ZAdd(args.target_decimals, args.self.exponent)

\* the exact result of the call in args, a value of 40 digits or more being
\* reported as one beyond 64 bits
ExactResult ==
    IF op \in ForwardOps THEN Scale10(ZMul(args.token_amount, ArgPrice), ArgScale)
    ELSE IF op \in InverseOps
    THEN IF ArgScale.neg
         THEN IF ZLt(Z(39), ZNeg(ArgScale)) THEN Z(0)
              ELSE ZDiv(args.usd_amount,
                        ZMul(ArgPrice, ZPow10(ZToInt(ZNeg(ArgScale)))))
         ELSE ZDiv(Scale10(args.usd_amount, ArgScale), ArgPrice)
    ELSE Scale10(args.self.mid, ArgScale)

\* the call in args is a rebasing of a positive price
Rebases ==
    \/ op \in ForwardOps \cup InverseOps /\ ZLt(Z(0), ArgPrice)
    \/ op = "SafePrice::to_u64" /\ ZLt(Z(0), args.self.mid)

\* C4: a rebasing operation fails with an Overflow error, and returns no number,
\* whenever the exact result exceeds the unsigned 64-bit range or the power of
\* ten exceeds the 128-bit intermediate
OverflowReported ==
    (Rebases /\ (~Pow10Fits(ArgScale) \/ ~InU(ExactResult, 64))) =>
        (out.tag = "Err" /\ out.err = "Overflow")

-----------------------------------------------------------------------------
(* Round trip *)

\* the forward result of the call in args converted back with
\* calculate_tokens_for_usd, same decimals and price
ConvertedBack ==
    IF op = "oracle::calculate_usd_value"
    THEN oracle_calculate_tokens_for_usd(out.val, Z(6), args.token_decimals,
                                         args.price, args.price_exponent,
                                         overflow_checks)
    ELSE safe_math_calculate_tokens_for_usd(out.val, args.usd_decimals,
                                            args.token_decimals, args.price,
                                            overflow_checks)

\* C5: when the forward conversion and the conversion of its value back both
\* succeed, the amount that comes back is within one unit of the original
RoundTrip ==
    (op \in FormulaOps /\ ZLt(Z(0), ArgPrice) /\ out.tag = "Ok") =>
        LET back == ConvertedBack
        IN  back.tag = "Ok" =>
                /\ ZLe(ZSub(args.token_amount, Z(1)), back.val)
                /\ ZLe(back.val, ZAdd(args.token_amount, Z(1)))

-----------------------------------------------------------------------------
(* Validator checks *)

IsErr(e) == out.tag = "Err" /\ out.err = e

\* now - publish_time of the call in args, exactly
ArgAge == ZSub(args.clock.unix_timestamp, args.price.publish_time)

\* the call in args got past the age check
PassesAge == out.tag # "Panic" /\ ~IsErr("PriceTooStale")

\* C6: a sample of age max_age_secs passes the age check, one of age
\* max_age_secs + 1 is rejected as stale, and one of negative age is rejected
\* as stale
StalenessBoundary ==
    op = "price_validation::validate_price" =>
        /\ ArgAge = args.config.max_age_secs => PassesAge
        /\ ArgAge = ZAdd(args.config.max_age_secs, Z(1)) => IsErr("PriceTooStale")
        /\ ArgAge.neg => IsErr("PriceTooStale")

ConfidenceOps == {"price_validation::validate_price", "oracle::validate_confidence"}

\* the threshold of the call in args
ArgMaxBps ==
    IF op = "oracle::validate_confidence" THEN args.max_bps
    ELSE args.config.max_confidence_bps

\* the call in args came to its confidence check
ReachesConfidence == op \in ConfidenceOps /\ PassesAge

\* confidence x 10000 / |price| truncated, exactly
ExactRatio(price) == ZDiv(ZMul(price.conf, Z(10000)), ZAbs(price.price))

\* C7: for price # 0 the confidence check rejects with ConfidenceTooHigh
\* exactly when the exact ratio confidence x 10000 / |price| is greater than
\* the threshold
ConfidenceRatio ==
    (ReachesConfidence /\ ~ZIsZero(args.price.price)) =>
        (IsErr("ConfidenceTooHigh") <=> ZLt(ArgMaxBps, ExactRatio(args.price)))

\* C8: a sample of price 0 is rejected by the confidence check with
\* ConfidenceTooHigh, for every confidence and every threshold
ZeroPriceRejected ==
    (ReachesConfidence /\ ZIsZero(args.price.price)) => IsErr("ConfidenceTooHigh")

\* the outcome of the call in args for another confidence
WithConf(c) ==
    IF op = "oracle::validate_confidence"
    THEN oracle_validate_confidence([args.price EXCEPT !.conf = c], args.max_bps)
    ELSE validate_price([args.price EXCEPT !.conf = c], args.config, args.clock,
                        overflow_checks)

\* C9: for a fixed price # 0 and policy, once a confidence is rejected with
\* ConfidenceTooHigh every greater confidence is rejected with it too
MonotonicRejection ==
    (/\ ReachesConfidence
     /\ ~ZIsZero(args.price.price)
     /\ IsErr("ConfidenceTooHigh")) =>
        \A c \in Confs :
            ZLt(args.price.conf, c) => WithConf(c) = Err("ConfidenceTooHigh")

\* the call in args came to the clamp check
ReachesClamp ==
    /\ op = "price_validation::validate_price"
    /\ PassesAge
    /\ ~IsErr("ConfidenceTooHigh")

\* the policy of the call in args has a minimum and the price is below it
BelowMin ==
    /\ args.config.min_price.tag = "Some"
    /\ ZLt(args.price.price, args.config.min_price.val)

\* the policy of the call in args has a maximum and the price is above it
AboveMax ==
    /\ args.config.max_price.tag = "Some"
    /\ ZLt(args.config.max_price.val, args.price.price)

\* C10: of the samples that come to the clamp check, those with price < min_price
\* are rejected with PriceBelowMinimum and no others (not price = min_price,
\* not with min_price absent); of the rest, those with price > max_price are
\* rejected with PriceAboveMaximum and no others
ClampCheck ==
    ReachesClamp =>
        /\ IsErr("PriceBelowMinimum") <=> BelowMin
        /\ IsErr("PriceAboveMaximum") <=> (~BelowMin /\ AboveMax)

\* a sample at min_price and at max_price of the policy is accepted
ClampBoundaryAccepted ==
    /\ ReachesClamp
    /\ args.config.min_price = Some(args.price.price)
    /\ args.config.max_price = Some(args.price.price)
    /\ out.tag = "Ok"

-----------------------------------------------------------------------------
(* Inverse rebasing of a non-positive price *)

\* C12: calculate_tokens_for_usd returns the non-positive price error, and no
\* token amount, for every price <= 0
NonPositivePriceRejected ==
    (op \in InverseOps /\ ~ZLt(Z(0), ArgPrice)) => IsErr("NegativePrice")

\* a nonzero amount asked for at price 0 is turned away
ZeroPriceInverseRejected ==
    /\ op \in InverseOps
    /\ ZIsZero(ArgPrice)
    /\ ~ZIsZero(args.usd_amount)
    /\ IsErr("NegativePrice")

-----------------------------------------------------------------------------
(* Price ratio *)

\* trunc(num x 10^k / den) for num >= 0, den > 0 below 2^63, exactly; a value
\* of 40 digits or more is reported as 2^128
ExactRatioOf(num, den, k) ==
    IF ZIsZero(num) THEN Z(0)
    ELSE IF k.neg
    THEN IF ZLt(Z(39), ZNeg(k)) THEN Z(0)
         ELSE ZDiv(num, ZMul(den, ZPow10(ZToInt(ZNeg(k)))))
    ELSE IF ZLt(Z(39), k) THEN ZPow2(128)
         ELSE ZDiv(ZMul(num, ZPow10(ZToInt(k))), den)

\* C13: calculate_price_ratio returns an error for a denominator price <= 0,
\* and for a denominator price > 0 and a numerator price >= 0 it returns
\* trunc(num x 10^(exp_num - exp_den) x 10^result_decimals / den), where that
\* fits the output
RatioFormula ==
    op = "multi_price::calculate_price_ratio" =>
        LET num == args.numerator_price
            den == args.denominator_price
            r   == ExactRatioOf(num.price, den.price,
                                ZAdd(ZSub(num.exponent, den.exponent),
                                     args.result_decimals))
        IN  IF ~ZLt(Z(0), den.price) THEN out.tag = "Err"
            ELSE (~num.price.neg /\ InU(r, 64)) => (out.tag = "Ok" /\ out.val = r)

-----------------------------------------------------------------------------
(* Synchronization *)

\* C14: validate_price_sync fails with the not-synchronized error exactly when
\* |publish_time_a - publish_time_b| > max_time_diff_secs and succeeds
\* otherwise, whichever sample comes first
SyncFormula ==
    op = "multi_price::validate_price_sync" =>
        LET apart == ZLt(args.max_time_diff_secs,
                         ZAbs(ZSub(args.price_a.publish_time,
                                   args.price_b.publish_time)))
        IN  /\ IF apart THEN IsErr("PricesNotSynchronized") ELSE out.tag = "Ok"
            /\ out = validate_price_sync(args.price_b, args.price_a,
                                         args.max_time_diff_secs, overflow_checks)

-----------------------------------------------------------------------------
(* Weighted blend *)

\* r is x / d truncated toward zero, d > 0
IsTruncated(r, x, d) ==
    /\ ZLe(ZMul(ZAbs(r), d), ZAbs(x))
    /\ ZLt(ZAbs(x), ZMul(ZAdd(ZAbs(r), Z(1)), d))
    /\ ZIsZero(r) \/ r.neg = x.neg

\* the call in args is a blend with a weight in [0, 10000]
Blends ==
    /\ op = "multi_price::calculate_twap"
    /\ ZLe(args.spot_weight_bps, Z(10000))

\* p1 x w + p2 x (10000 - w) of the call in args, exactly
WeightedSum ==
    ZAdd(ZMul(args.spot_price.price, args.spot_weight_bps),
         ZMul(args.ema_price.price, ZSub(Z(10000), args.spot_weight_bps)))

\* C15: for every weight w in [0, 10000] calculate_twap returns
\* (p1 x w + p2 x (10000 - w)) / 10000 truncated toward zero, without overflow
TwapFormula ==
    Blends => (out.tag = "Ok" /\ IsTruncated(out.val, WeightedSum, Z(10000)))

\* a blend of a negative sum whose division truncates a nonzero remainder
TwapTruncatesNegative ==
    /\ Blends
    /\ out.tag = "Ok"
    /\ WeightedSum.neg
    /\ ~ZIsZero(out.val)
    /\ ZMul(out.val, Z(10000)) # WeightedSum

\* the lesser and the greater of the two prices of the call in args
BlendMin ==
    IF ZLe(args.spot_price.price, args.ema_price.price)
    THEN args.spot_price.price ELSE args.ema_price.price

BlendMax ==
    IF ZLe(args.spot_price.price, args.ema_price.price)
    THEN args.ema_price.price ELSE args.spot_price.price

\* C19: for every weight w in [0, 10000] the result of calculate_twap lies
\* between min(spot, ema) and max(spot, ema); w = 10000 returns the spot price
\* and w = 0 the EMA price
TwapBetween ==
    Blends =>
        /\ out.tag = "Ok"
        /\ ZLe(BlendMin, out.val)
        /\ ZLe(out.val, BlendMax)
        /\ args.spot_weight_bps = Z(10000) => out.val = args.spot_price.price
        /\ args.spot_weight_bps = Z(0) => out.val = args.ema_price.price

\* a blend strictly between two different prices
TwapStrictlyBetween ==
    /\ Blends
    /\ out.tag = "Ok"
    /\ ZLt(BlendMin, out.val)
    /\ ZLt(out.val, BlendMax)
    /\ ~ZIsZero(args.spot_weight_bps)

-----------------------------------------------------------------------------
(* Faults *)

\* C16: no call ends in a process-fatal fault (an overflow panic, a division
\* by zero): every failure is a returned error
NoFatalFault == out.tag # "Panic"

-----------------------------------------------------------------------------
(* Order of the validator's checks *)

\* the clock at which the sample of the call in args has age 0
AtPublishTime == [unix_timestamp |-> args.price.publish_time]

\* validate_price on the sample of the call in args with one check of its
\* policy in force: the others are given a policy that lets every sample pass
AgeOnly ==
    validate_price(args.price,
                   ValidationConfig(args.config.max_age_secs, UMax(64), None, None),
                   args.clock, overflow_checks)

ConfidenceOnly ==
    validate_price(args.price,
                   ValidationConfig(args.config.max_age_secs,
                                    args.config.max_confidence_bps, None, None),
                   AtPublishTime, overflow_checks)

MinOnly ==
    validate_price(args.price,
                   ValidationConfig(args.config.max_age_secs, UMax(64),
                                    args.config.min_price, None),
                   AtPublishTime, overflow_checks)

MaxOnly ==
    validate_price(args.price,
                   ValidationConfig(args.config.max_age_secs, UMax(64), None,
                                    args.config.max_price),
                   AtPublishTime, overflow_checks)

\* o is success or the given error
OkOrErr(o, e) == o = Ok(<<>>) \/ o = Err(e)

\* the outcome of the earliest check that does not pass, in the order age,
\* confidence, minimum, maximum
FirstFailure ==
    IF AgeOnly.tag # "Ok" THEN AgeOnly
    ELSE IF ConfidenceOnly.tag # "Ok" THEN ConfidenceOnly
    ELSE IF MinOnly.tag # "Ok" THEN MinOnly
    ELSE IF MaxOnly.tag # "Ok" THEN MaxOnly
    ELSE Ok(<<>>)

\* C17: validate_price returns the error of the earliest failing check in the
\* order age, confidence, minimum, maximum, and success only if every check
\* passed
CheckOrder ==
    op = "price_validation::validate_price" =>
        /\ AgeOnly.tag # "Panic" => OkOrErr(AgeOnly, "PriceTooStale")
        /\ OkOrErr(ConfidenceOnly, "ConfidenceTooHigh")
        /\ OkOrErr(MinOnly, "PriceBelowMinimum")
        /\ OkOrErr(MaxOnly, "PriceAboveMaximum")
        /\ out = FirstFailure

\* a sample that is stale, too uncertain and below the minimum is rejected as
\* stale
StaleReportedFirst ==
    /\ op = "price_validation::validate_price"
    /\ AgeOnly = Err("PriceTooStale")
    /\ ConfidenceOnly = Err("ConfidenceTooHigh")
    /\ MinOnly = Err("PriceBelowMinimum")
    /\ out = Err("PriceTooStale")

-----------------------------------------------------------------------------
(* Agreement of the confidence checks *)

MAX_CONFIDENCE_BPS == 200

\* C18: for every sample with price # 0 the confidence checks of
\* anchor-integration.rs, of anchor-oracle.rs at 200 basis points and of
\* price-validation.rs at 200 basis points all accept or all reject
ConfidenceChecksAgree ==
    (op = "integration::validate_confidence" /\ ~ZIsZero(args.price.price)) =>
        LET oracle == oracle_validate_confidence(args.price, Z(MAX_CONFIDENCE_BPS))
            validation ==
                validate_price(args.price,
                               ValidationConfig(Z(60), Z(MAX_CONFIDENCE_BPS),
                                                None, None),
                               AtPublishTime, overflow_checks)
        IN  /\ (out.tag = "Ok") = (oracle.tag = "Ok")
            /\ (out.tag = "Ok") = (validation.tag = "Ok")

-----------------------------------------------------------------------------
(* All calls *)

Next ==
    \/ from_price
    \/ from_pyth_price
    \/ price_with_sigma
    \/ safe_price_with_sigma
    \/ calculate_usd_value
    \/ calculate_tokens_for_usd
    \/ calculate_value_usd
    \/ safe_math_tokens_for_usd
    \/ integration_usd_value
    \/ to_u64
    \/ call_validate_price
    \/ call_validate_confidence
    \/ call_integration_validate_confidence
    \/ call_validate_price_sync
    \/ call_calculate_price_ratio
    \/ call_calculate_twap
    \/ call_calculate_swap_output
    \/ Return

Spec == Init /\ [][Next]_vars

====
